---- MODULE Spec2Model ----
(***************************************************************************)
(* Model of static/js/main.js: the DOMContentLoaded initializer (sidebar   *)
(* toggle, alert dismissal) and the utility functions confirmDelete,       *)
(* formatDate and checkAccess, the latter three in their two versions      *)
(* (src/static/js/main.js = "main", src/unnamed/part_000 = "part").        *)
(*                                                                         *)
(* The page tree is a forest of MaxNodes elements below the document; each *)
(* element carries a subset of the classes "alert" and "alert-close".      *)
(* #btnSidebar and #sidebar are layout elements outside the alert markup;  *)
(* only their presence and the sidebar's "open" class matter to the code.  *)
(* Interactions are modelled from the moment the initializer has run.      *)
(***************************************************************************)
EXTENDS Integers, Sequences, FiniteSets, TLC

MaxNodes == 3
MaxClicks == 2

Nodes == 1..MaxNodes
Doc == 0
NoNode == -1
Classes == {"alert", "alert-close"}

VARIABLES
  pc,            \* "loading" before DOMContentLoaded has fired, "ready" after
  parent,        \* parent[n]: parent element of n, Doc, or NoNode once removed
  cls,           \* cls[n]: the class list of element n
  hasBtn,        \* document.getElementById("btnSidebar") is not null
  hasSidebar,    \* document.getElementById("sidebar") is not null
  sidebarOpen,   \* sidebar.classList.contains("open")
  sidebarBound,  \* the click listener of main.js:11 is attached to btn
  closeBound,    \* elements carrying the click listener of main.js:18
  error,         \* an exception was raised by the initializer or a listener
  origOpen,      \* history: sidebarOpen at page load
  clicks,        \* history: number of clicks on #btnSidebar so far
  dismissed,     \* history: alerts on which remove() was called
  last           \* history: the last event dispatched or function called

vars == <<pc, parent, cls, hasBtn, hasSidebar, sidebarOpen, sidebarBound,
          closeBound, error, origOpen, clicks, dismissed, last>>

domVars == <<pc, parent, cls, hasBtn, hasSidebar, sidebarOpen, sidebarBound,
             closeBound, error, origOpen, clicks, dismissed>>

----------------------------------------------------------------------------
(* The page tree *)

RECURSIVE InTree(_, _)
InTree(p, n) ==
  IF n = Doc THEN TRUE
  ELSE IF n = NoNode THEN FALSE
  ELSE InTree(p, p[n])

\* Element.closest(".alert"): the element itself or its nearest ancestor
\* carrying the class, null (NoNode) if there is none.
RECURSIVE closest(_, _, _, _)
closest(p, c, n, class) ==
  IF n = Doc \/ n = NoNode THEN NoNode
  ELSE IF class \in c[n] THEN n
  ELSE closest(p, c, p[n], class)

\* Element.remove(): detaches the element (and so its subtree) from its parent.
RemoveAll(p, c, a) == [n \in Nodes |-> IF "alert" \in c[n] THEN NoNode ELSE p[n]]
remove(p, c, a) == [p EXCEPT ![a] = NoNode]

\* document.querySelectorAll(".alert-close"): the matching elements in the tree.
querySelectorAll(p, c, class) == {n \in Nodes : class \in c[n] /\ InTree(p, n)}

\* The propagation path of an event whose target is n: n and its ancestors.
RECURSIVE Path(_, _)
Path(p, n) ==
  IF n = Doc \/ n = NoNode THEN <<>>
  ELSE <<n>> \o Path(p, p[n])

----------------------------------------------------------------------------
(* JavaScript values.  A string is a sequence of text fragments: single     *)
(* characters where the code looks inside the string (date strings), whole  *)
(* words elsewhere.                                                         *)

Undefined == [t |-> "undefined", s |-> <<>>]
Null == [t |-> "null", s |-> <<>>]
Str(s) == [t |-> "string", s |-> s]
Bool(b) == [t |-> "boolean", s |-> IF b THEN <<"true">> ELSE <<"false">>]
None == [t |-> "none", s |-> <<>>]

\* ToBoolean on the values above
Truthy(v) ==
  CASE v.t = "string" -> v.s # <<>>
    [] v.t = "boolean" -> v.s = <<"true">>
    [] OTHER -> FALSE

Versions == {"main", "part"}

\* The last event dispatched or function called, with what it was given and
\* what it produced.
Ev(op, target) ==
  [op |-> op, target |-> target, ver |-> "main", arg |-> None,
   accepted |-> FALSE, host |-> "", prompt |-> None, ret |-> None]
Call(op, ver, arg, accepted, host, prompt, ret) ==
  [op |-> op, target |-> Doc, ver |-> ver, arg |-> arg,
   accepted |-> accepted, host |-> host, prompt |-> prompt, ret |-> ret]
NoEv == Ev("none", Doc)
LoadEv == Ev("DOMContentLoaded", Doc)
ClickEv(n) == Ev("click", n)
ToggleEv == Ev("clickBtn", Doc)

----------------------------------------------------------------------------
(* The initializer: main.js:5-22 *)

\* main.js:10  if (btn && sidebar)
GuardNone(btn, sidebar) == TRUE
SidebarGuard(btn, sidebar) == btn /\ sidebar

\* main.js:17  the elements that get the close listener
CloseControls(p, c) == querySelectorAll(p, c, "alert-close")

\* btn.addEventListener on a null btn raises a TypeError, which ends the
\* handler before the alert wiring; the guard of main.js:10 rules it out.
DOMContentLoaded ==
  /\ pc = "loading"
  /\ pc' = "ready"
  /\ LET btn == hasBtn
         sidebar == hasSidebar
     IN  IF SidebarGuard(btn, sidebar) /\ ~btn
         THEN /\ error' = TRUE
              /\ UNCHANGED <<sidebarBound, closeBound>>
         ELSE /\ sidebarBound' = SidebarGuard(btn, sidebar)
              /\ closeBound' = CloseControls(parent, cls)
              /\ UNCHANGED error
  /\ last' = LoadEv
  /\ UNCHANGED <<parent, cls, hasBtn, hasSidebar, sidebarOpen, origOpen,
                 clicks, dismissed>>

----------------------------------------------------------------------------
(* The sidebar toggle: main.js:11-13 *)

\* DOMTokenList.toggle("open")
ToggleAdd(open) == TRUE
toggle(open) == ~open

\* A click on #btnSidebar.  sidebar.classList on a null sidebar raises a
\* TypeError; the guard of main.js:10 rules it out.
ClickToggle ==
  /\ pc = "ready"
  /\ hasBtn
  /\ clicks < MaxClicks
  /\ clicks' = clicks + 1
  /\ IF ~sidebarBound THEN UNCHANGED <<sidebarOpen, error>>
     ELSE IF hasSidebar
          THEN sidebarOpen' = toggle(sidebarOpen) /\ UNCHANGED error
          ELSE error' = TRUE /\ UNCHANGED sidebarOpen
  /\ last' = ToggleEv
  /\ UNCHANGED <<pc, parent, cls, hasBtn, hasSidebar, sidebarBound,
                 closeBound, origOpen, dismissed>>

----------------------------------------------------------------------------
(* Alert dismissal: main.js:18-20 *)

Unhandled(p) == [parent |-> p, removed |-> {}, error |-> FALSE]

\* b.closest(".alert").remove() without the optional chaining
CloseListenerUnchained(p, c, b) ==
  LET a == closest(p, c, b, "alert")
  IN  IF a = NoNode THEN [parent |-> p, removed |-> {}, error |-> TRUE]
      ELSE [parent |-> remove(p, c, a), removed |-> {a}, error |-> FALSE]

\* style.display = "none" instead of remove()
CloseListenerHide(p, c, b) ==
  LET a == closest(p, c, b, "alert")
  IN  IF a = NoNode THEN Unhandled(p)
      ELSE [parent |-> p, removed |-> {a}, error |-> FALSE]

\* b.closest(".alert")?.remove()
CloseListener(p, c, b) ==
  LET a == closest(p, c, b, "alert")
  IN  IF a = NoNode THEN Unhandled(p)
      ELSE [parent |-> remove(p, c, a), removed |-> {a}, error |-> FALSE]

\* A click bubbles from its target to the document; the listener of every
\* bound element on the path runs, target first, on the tree as the
\* listeners before it left it.
RECURSIVE Dispatch(_, _, _, _)
Dispatch(path, p, c, bound) ==
  IF path = <<>> THEN Unhandled(p)
  ELSE LET b == Head(path)
           r == IF b \in bound THEN CloseListener(p, c, b) ELSE Unhandled(p)
           rest == Dispatch(Tail(path), r.parent, c, bound)
       IN  [parent |-> rest.parent,
            removed |-> r.removed \cup rest.removed,
            error |-> r.error \/ rest.error]

\* A click on element e of the page tree.
Click(e) ==
  /\ pc = "ready"
  /\ InTree(parent, e)
  /\ LET r == Dispatch(Path(parent, e), parent, cls, closeBound)
     IN  /\ parent' = r.parent
         /\ dismissed' = dismissed \cup r.removed
         /\ error' = (error \/ r.error)
  /\ last' = ClickEv(e)
  /\ UNCHANGED <<pc, cls, hasBtn, hasSidebar, sidebarOpen, sidebarBound,
                 closeBound, origOpen, clicks>>

----------------------------------------------------------------------------
(* confirmDelete: main.js:27-29, part_000:5-7 *)

DefaultMessage == <<"Êtes-vous sûr de vouloir supprimer cet élément ?">>

\* message ?? "..." instead of message || "..."
confirmDeleteNullish(message) ==
  IF message.t \in {"undefined", "null"} THEN Str(DefaultMessage) ELSE message

\* The text handed to confirm().
confirmDeleteMain(message) ==
  IF Truthy(message) THEN message ELSE Str(DefaultMessage)

confirmDeletePart(message) ==
  IF Truthy(message) THEN message ELSE Str(DefaultMessage)

\* confirm() returns whether the user accepted the dialog.
confirm(accepted) == Bool(accepted)

\* A deletion helper that also dismisses the alerts of the page.
confirmDeleteCallDeleting(ver, message, accepted) ==
  /\ last' = Call("confirmDelete", ver, message, accepted, "",
                  confirmDeleteMain(message), confirm(accepted))
  /\ parent' = IF accepted THEN [n \in Nodes |-> NoNode] ELSE parent
  /\ UNCHANGED <<pc, cls, hasBtn, hasSidebar, sidebarOpen, sidebarBound,
                 closeBound, error, origOpen, clicks, dismissed>>

confirmDeleteCall(ver, message, accepted) ==
  /\ last' = Call("confirmDelete", ver, message, accepted, "",
                  IF ver = "main" THEN confirmDeleteMain(message)
                                  ELSE confirmDeletePart(message),
                  confirm(accepted))
  /\ UNCHANGED domVars

----------------------------------------------------------------------------
(* checkAccess: main.js:45-48, part_000:22-25 *)

checkAccessDenyEmpty(action) == Bool(Truthy(action))
checkAccessMain(action) == Bool(TRUE)
checkAccessPart(action) == Bool(TRUE)

checkAccessCall(ver, action) ==
  /\ last' = Call("checkAccess", ver, action, FALSE, "", None,
                  IF ver = "main" THEN checkAccessMain(action)
                                  ELSE checkAccessPart(action))
  /\ UNCHANGED domVars

----------------------------------------------------------------------------
(* formatDate: main.js:32-42, part_000:10-19 *)

DigitChars == <<"0", "1", "2", "3", "4", "5", "6", "7", "8", "9">>
IsDigit(ch) == \E i \in DOMAIN DigitChars : DigitChars[i] = ch
DigitVal(ch) == (CHOOSE i \in DOMAIN DigitChars : DigitChars[i] = ch) - 1

RECURSIVE Digits(_)
Digits(n) ==
  IF n < 10 THEN <<DigitChars[n + 1]>>
  ELSE Digits(n \div 10) \o <<DigitChars[(n % 10) + 1]>>

RECURSIVE Pad(_, _)
Pad(str, width) == IF Len(str) >= width THEN str ELSE Pad(<<"0">> \o str, width)

AllDigits(str, i, j) == \A k \in i..j : IsDigit(str[k])

RECURSIVE NumOf(_, _, _)
NumOf(str, i, j) ==
  IF i > j THEN 0 ELSE NumOf(str, i, j - 1) * 10 + DigitVal(str[j])

DaysInMonth(y, mo) ==
  IF mo = 2
  THEN IF (y % 4 = 0 /\ y % 100 # 0) \/ y % 400 = 0 THEN 29 ELSE 28
  ELSE IF mo \in {4, 6, 9, 11} THEN 30 ELSE 31

\* A Date as the local calendar fields the formatter prints; valid is
\* FALSE for the time value NaN.
NaNDate == [valid |-> FALSE, y |-> 0, mo |-> 0, d |-> 0, h |-> 0, mi |-> 0]
LocalDate(y, mo, d, h, mi) ==
  [valid |-> TRUE, y |-> y, mo |-> mo, d |-> d, h |-> h, mi |-> mi]

\* The host's time zone (hours east of UTC) and the fr-FR separator between
\* date and time, both left to the locale engine.
Hosts == {"UTC", "Paris"}
HostTz(host) == IF host = "UTC" THEN 0 ELSE 1
HostSep(host) == IF host = "UTC" THEN ", " ELSE " à "

\* Date.parse of YYYY-MM-DDTHH:mm and YYYY-MM-DDTHH:mm:ss, read as local
\* time; any other text or an out-of-range field gives NaN.
DateParse(str) ==
  LET n == Len(str)
      shape ==
        /\ n \in {16, 19}
        /\ AllDigits(str, 1, 4) /\ str[5] = "-"
        /\ AllDigits(str, 6, 7) /\ str[8] = "-"
        /\ AllDigits(str, 9, 10) /\ str[11] = "T"
        /\ AllDigits(str, 12, 13) /\ str[14] = ":"
        /\ AllDigits(str, 15, 16)
        /\ (n = 19 => str[17] = ":" /\ AllDigits(str, 18, 19))
  IN  IF ~shape THEN NaNDate
      ELSE LET y == NumOf(str, 1, 4)
               mo == NumOf(str, 6, 7)
               d == NumOf(str, 9, 10)
               h == NumOf(str, 12, 13)
               mi == NumOf(str, 15, 16)
               sec == IF n = 19 THEN NumOf(str, 18, 19) ELSE 0
           IN  IF /\ mo \in 1..12
                  /\ d \in 1..DaysInMonth(y, mo)
                  /\ h \in 0..23
                  /\ mi \in 0..59
                  /\ sec \in 0..59
               THEN LocalDate(y, mo, d, h, mi)
               ELSE NaNDate

\* new Date(value): undefined gives NaN, null converts to the number 0 (the
\* epoch, shown in the host's zone), a string is parsed.
NewDate(value, host) ==
  CASE value.t = "undefined" -> NaNDate
    [] value.t = "null" -> LocalDate(1970, 1, 1, HostTz(host), 0)
    [] value.t = "string" -> DateParse(value.s)
    [] OTHER -> NaNDate

MonthNames ==
  <<"janvier", "février", "mars", "avril", "mai", "juin", "juillet",
    "août", "septembre", "octobre", "novembre", "décembre">>

\* date.toLocaleDateString("fr-FR", {year: "numeric", month: "long",
\*   day: "numeric", hour: "2-digit", minute: "2-digit"})
toLocaleDateString(date, host) ==
  IF ~date.valid THEN Str(<<"Invalid Date">>)
  ELSE Str(Digits(date.d) \o <<" ", MonthNames[date.mo], " ">>
           \o Digits(date.y) \o <<HostSep(host)>>
           \o Pad(Digits(date.h), 2) \o <<":">> \o Pad(Digits(date.mi), 2))

\* if (dateString === "") return "";
formatDateStrictGuard(dateString, host) ==
  IF dateString = Str(<<>>) THEN Str(<<>>)
  ELSE toLocaleDateString(NewDate(dateString, host), host)

\* if (!dateString || isNaN(date)) return "";
formatDateNaNGuard(dateString, host) ==
  IF ~Truthy(dateString) \/ ~NewDate(dateString, host).valid THEN Str(<<>>)
  ELSE toLocaleDateString(NewDate(dateString, host), host)

formatDateMain(dateString, host) ==
  IF ~Truthy(dateString) THEN Str(<<>>)
  ELSE LET date == NewDate(dateString, host)
       IN  toLocaleDateString(date, host)

formatDatePart(dateString, host) ==
  LET date == NewDate(dateString, host)
  IN  toLocaleDateString(date, host)

formatDate(ver, dateString, host) ==
  IF ver = "main" THEN formatDateMain(dateString, host)
                  ELSE formatDatePart(dateString, host)

formatDateCall(ver, dateString, host) ==
  /\ last' = Call("formatDate", ver, dateString, FALSE, host, None,
                  formatDate(ver, dateString, host))
  /\ UNCHANGED domVars

----------------------------------------------------------------------------
(* Inputs *)

IsoString(y, mo, d, h, mi) ==
  Pad(Digits(y), 4) \o <<"-">> \o Pad(Digits(mo), 2) \o <<"-">>
    \o Pad(Digits(d), 2) \o <<"T">> \o Pad(Digits(h), 2) \o <<":">>
    \o Pad(Digits(mi), 2)

Messages ==
  {Undefined, Null, Str(<<>>), Str(<<"Supprimer ?">>),
   Str(<<"Supprimer", " ", "cet utilisateur ?">>)}

ActionIds ==
  {Undefined, Null, Str(<<>>), Str(<<"delete_user">>), Str(<<"admin">>)}

DateStrings ==
  {Undefined, Null, Str(<<>>), Str(<<"h", "i", "e", "r">>),
   Str(<<"2", "0", "2", "4">>),
   Str(IsoString(2024, 3, 5, 14, 30) \o <<":", "0", "0">>),
   Str(IsoString(2024, 3, 5, 14, 30) \o <<"Z", "Z", "Z">>),
   Str(IsoString(2024, 2, 29, 8, 5)), Str(IsoString(2023, 2, 29, 8, 5))}
  \cup {Str(IsoString(y, mo, d, h, mi)) :
          y \in {1970, 2024}, mo \in {0, 3, 12, 13}, d \in {5, 32},
          h \in {0, 14, 25}, mi \in {5, 60}}

\* The calls made while the page is being clicked on.
PageMessages == {Undefined}
PageDateStrings == {Str(<<>>)}
PageActionIds == {Str(<<"delete_user">>)}

----------------------------------------------------------------------------
(* Specifications *)

Forests == {p \in [Nodes -> 0..(MaxNodes - 1)] : \A n \in Nodes : p[n] < n}

Init ==
  /\ pc = "loading"
  /\ parent \in Forests
  /\ cls \in [Nodes -> SUBSET Classes]
  /\ hasBtn \in BOOLEAN
  /\ hasSidebar \in BOOLEAN
  /\ sidebarOpen \in BOOLEAN
  /\ (~hasSidebar => ~sidebarOpen)
  /\ sidebarBound = FALSE
  /\ closeBound = {}
  /\ error = FALSE
  /\ origOpen = sidebarOpen
  /\ clicks = 0
  /\ dismissed = {}
  /\ last = NoEv

Next ==
  \/ DOMContentLoaded
  \/ ClickToggle
  \/ \E e \in Nodes : Click(e)
  \/ pc = "ready" /\ \E m \in PageMessages, acc \in BOOLEAN :
       confirmDeleteCall("main", m, acc)
  \/ pc = "ready" /\ \E s \in PageDateStrings :
       formatDateCall("main", s, "Paris")
  \/ pc = "ready" /\ \E a \in PageActionIds : checkAccessCall("main", a)

Spec == Init /\ [][Next]_vars

\* The utility functions on their own, on a page without alerts or sidebar.
InitUtil ==
  /\ pc = "loading"
  /\ parent = [n \in Nodes |-> Doc]
  /\ cls = [n \in Nodes |-> {}]
  /\ hasBtn = FALSE
  /\ hasSidebar = FALSE
  /\ sidebarOpen = FALSE
  /\ sidebarBound = FALSE
  /\ closeBound = {}
  /\ error = FALSE
  /\ origOpen = FALSE
  /\ clicks = 0
  /\ dismissed = {}
  /\ last = NoEv

NextUtil ==
  \/ \E v \in Versions, m \in Messages, acc \in BOOLEAN :
       confirmDeleteCall(v, m, acc)
  \/ \E v \in Versions, s \in DateStrings, host \in Hosts :
       formatDateCall(v, s, host)
  \/ \E v \in Versions, a \in ActionIds : checkAccessCall(v, a)

SpecUtil == InitUtil /\ [][NextUtil]_vars

----------------------------------------------------------------------------
(* Properties *)

RECURSIVE AncOrSelf(_, _)
AncOrSelf(p, n) ==
  IF n = Doc \/ n = NoNode THEN {} ELSE {n} \cup AncOrSelf(p, p[n])
IsAlert(n) == "alert" \in cls[n]
AlertOf(c) == closest(parent, cls, c, "alert")
Flip(b, n) == IF n % 2 = 0 THEN b ELSE ~b

\* C1: when #btnSidebar and #sidebar both exist at page load, after n clicks
\* on the toggle the sidebar is in its original open/closed state if n is
\* even and in the opposite state if n is odd.
C1_ToggleParity ==
  (hasBtn /\ hasSidebar) => sidebarOpen = Flip(origOpen, clicks)

C1_Witness ==
  /\ hasBtn /\ hasSidebar /\ sidebarBound
  /\ clicks >= 2
  /\ sidebarOpen = Flip(origOpen, clicks)

\* C2 as stated: a click on the close control of an alert removes that alert
\* and every other alert that was in the page tree is still in it.
C2_Original ==
  [][\A c \in Nodes :
       (last' = ClickEv(c) /\ c \in closeBound /\ AlertOf(c) # NoNode)
       => /\ ~InTree(parent', AlertOf(c))
          /\ \A x \in Nodes \ {AlertOf(c)} :
               (IsAlert(x) /\ InTree(parent, x)) => InTree(parent', x)]_vars

\* The alerts that the listeners reached by a click on c call remove() on:
\* the nearest alert of c and of every bound close control enclosing c.
RemovedBy(c) ==
  {closest(parent, cls, b, "alert") : b \in AncOrSelf(parent, c) \cap closeBound}
    \ {NoNode}

\* C2 (amended): a click on the close control of an alert removes that alert
\* with everything nested in it, and likewise the nearest alert of every
\* close control that encloses the clicked one; an alert that was in the
\* page tree is still in it exactly if it is outside the removed elements.
C2_RemovesOnlyItsSubtree ==
  [][\A c \in Nodes :
       (last' = ClickEv(c) /\ c \in closeBound /\ AlertOf(c) # NoNode)
       => /\ ~InTree(parent', AlertOf(c))
          /\ \A x \in Nodes :
               (IsAlert(x) /\ InTree(parent, x))
               => (InTree(parent', x)
                   <=> AncOrSelf(parent, x) \cap RemovedBy(c) = {})]_vars

C2_Witness ==
  /\ last.op = "click"
  /\ last.target \in closeBound
  /\ \E a \in dismissed, x \in Nodes, y \in Nodes :
       /\ a = closest(parent, cls, last.target, "alert")
       /\ IsAlert(x) /\ InTree(parent, x)
       /\ IsAlert(y) /\ y # a /\ parent[y] = a

\* C3: an alert removed by a click on its close control is in the page tree
\* in no later state, whatever clicks and calls follow.
C3_DismissalPermanent ==
  \A a \in dismissed : IsAlert(a) /\ ~InTree(parent, a)

C3_Witness ==
  /\ dismissed # {}
  /\ last.op \in {"clickBtn", "confirmDelete", "formatDate", "checkAccess"}
  /\ \E c \in closeBound : InTree(parent, c)

\* C4: if #btnSidebar or #sidebar is absent at page load, the initializer
\* completes without an error and binds no sidebar listener, no click
\* changes the sidebar's state, and the close controls are still wired.
C4_AbsentSidebarSkipped ==
  (pc = "ready" /\ ~(hasBtn /\ hasSidebar))
  => /\ ~error
     /\ ~sidebarBound
     /\ sidebarOpen = origOpen
     /\ closeBound = {n \in Nodes : "alert-close" \in cls[n]}

C4_Witness ==
  /\ pc = "ready" /\ hasBtn /\ ~hasSidebar
  /\ clicks > 0
  /\ last.op = "clickBtn"
  /\ closeBound # {}

\* C5 as stated: the prompt shows the default text when confirmDelete is
\* called with no argument and exactly the message for every message string.
C5_Original ==
  last.op = "confirmDelete"
  => /\ (last.arg = Undefined => last.prompt = Str(DefaultMessage))
     /\ (last.arg.t = "string" => last.prompt = last.arg)

\* C5 (amended): the prompt shows the default text when confirmDelete is
\* called with no argument or with the empty string, and exactly the
\* message for every non-empty message string.
C5_PromptText ==
  last.op = "confirmDelete"
  => /\ (last.arg \in {Undefined, Str(<<>>)}
           => last.prompt = Str(DefaultMessage))
     /\ ((last.arg.t = "string" /\ last.arg.s # <<>>)
           => last.prompt = last.arg)

C5_Witness ==
  /\ last.op = "confirmDelete"
  /\ last.arg = Str(<<>>)
  /\ last.prompt = Str(DefaultMessage)

\* C6: confirmDelete returns true if the user accepted the prompt and false
\* otherwise, and leaves the sidebar's state and the alerts of the page
\* tree as they were.
C6_ConfirmDeleteFrame ==
  [][last'.op = "confirmDelete"
     => /\ last'.ret = Bool(last'.accepted)
        /\ sidebarOpen' = sidebarOpen
        /\ \A x \in Nodes :
             IsAlert(x) => (InTree(parent', x) <=> InTree(parent, x))]_vars

C6_Witness ==
  /\ last.op = "confirmDelete"
  /\ ~last.accepted /\ last.ret = Bool(FALSE)
  /\ hasSidebar /\ sidebarOpen
  /\ \E x \in Nodes : IsAlert(x) /\ InTree(parent, x)

\* C7: the guarded formatDate (main.js) returns the empty string for the
\* empty string, undefined and null, with no error and no "Invalid Date".
C7_GuardedEmpty ==
  (last.op = "formatDate" /\ last.ver = "main"
     /\ last.arg \in {Str(<<>>), Undefined, Null})
  => (last.ret = Str(<<>>) /\ ~error)

C7_Witness ==
  /\ last.op = "formatDate" /\ last.ver = "main"
  /\ last.arg = Null
  /\ last.ret = Str(<<>>)

\* C8: checkAccess returns true for every input, the empty string and
\* undefined included, in both versions.
C8_AlwaysGranted ==
  last.op = "checkAccess" => last.ret = Bool(TRUE)

C8_Witness ==
  /\ last.op = "checkAccess" /\ last.ver = "main"
  /\ last.arg = Str(<<>>)
  /\ last.ret = Bool(TRUE)

OtherVersion(ver) == IF ver = "main" THEN "part" ELSE "main"

\* C10: the two versions of formatDate differ only by the guard: for the
\* empty string part_000 renders "Invalid Date" where main.js returns "",
\* and for every non-empty string both return the same result.
C10_VersionsDifferByGuard ==
  last.op = "formatDate"
  => /\ (last.arg = Str(<<>>)
           => last.ret = IF last.ver = "part" THEN Str(<<"Invalid Date">>)
                                              ELSE Str(<<>>))
     /\ ((last.arg.t = "string" /\ last.arg.s # <<>>)
           => last.ret = formatDate(OtherVersion(last.ver), last.arg, last.host))

C10_Witness ==
  /\ last.op = "formatDate" /\ last.ver = "part"
  /\ last.arg = Str(IsoString(2024, 3, 5, 14, 5))
  /\ last.host = "Paris"
  /\ last.ret = Str(<<"5", " ", "mars", " ", "2", "0", "2", "4", " à ",
                      "1", "4", ":", "0", "5">>)

====
